---- MODULE Spec2Model ----
(***************************************************************************)
(* Model of the send_file crate (src/src/lib.rs): the SendFile future, its *)
(* three platform variants of raw_send_file and the retry loop of poll.    *)
(*                                                                         *)
(* The sendfile system call is the environment of the crate.  It is        *)
(* modelled as the set of outcomes the kernel can produce for a call at a  *)
(* given offset: bytes are copied from the file to the socket in file      *)
(* order, a non-blocking socket takes at most the free room of its send    *)
(* buffer, a signal interrupts the call, the peer closes the connection.   *)
(* The peer (Drain, Close) runs concurrently with the loop of poll, so     *)
(* poll is modelled one loop iteration at a time.                          *)
(***************************************************************************)
EXTENDS Integers, Sequences, FiniteSets, TLC

\* ---------------------------------------------------------------- bounds
MaxSize == 3      \* longest source file, in bytes
BufCap  == 2      \* capacity of the socket's send buffer, in bytes
MaxIntr == 1      \* signals delivered during one poll invocation
MaxPolls == 3     \* the poll counter saturates here
MaxCalls == MaxSize + MaxIntr + 2   \* the call counter saturates here

\* The per-call ceiling of the Linux variant.  The source sets 0x7ffff000;
\* the model scales it down so that files larger than the ceiling exist
\* within MaxSize.
count == 2

Bytes == {0, 1}
Platforms == {"linux", "macos", "freebsd"}   \* "linux" stands for android too
FatalErrno == {"EPIPE", "ECONNRESET"}

Min(a, b) == IF a < b THEN a ELSE b
Max(a, b) == IF a > b THEN a ELSE b

RECURSIVE SeqsUpTo(_)
SeqsUpTo(n) ==
    IF n = 0 THEN {<<>>}
    ELSE LET shorter == SeqsUpTo(n - 1)
         IN  shorter \cup {Append(s, b) : s \in {t \in shorter : Len(t) = n - 1}, b \in Bytes}

Prefix(s, n) == SubSeq(s, 1, n)

VARIABLES
    target_os,    \* the cfg(target_os) the crate was built for
    self,         \* the SendFile struct: file, socket, written
    data,         \* contents of the file behind self.file
    received,     \* bytes the socket has accepted so far, in order
    room,         \* free bytes in the socket's send buffer
    closed,       \* "open", or the errno a write to the socket now fails with
    nonblocking,  \* the socket is in non-blocking mode
    pc,           \* "idle": no poll in progress; "loop": inside poll's loop
    ret,          \* what the last poll invocation returned
    last,         \* the last libc::sendfile call: offset passed, errno, bytes
    ncalls,       \* raw_send_file calls made by the current poll invocation
    intr,         \* signals delivered during the current poll invocation
    polls,        \* poll invocations so far (saturating)
    advanced,     \* sum of the n of all Ok(n) returned by raw_send_file
    unwritable,   \* the socket was open and full ever since this poll began
    never_writable, \* the socket was open and full ever since construction
    wstart,       \* self.written when the current poll invocation began
    alive,        \* the SendFile value exists: into_inner has not consumed it
    parts,        \* what into_inner returned, <<>> before it was called
    observed,     \* <<v>>: written() returned v since the last poll; else <<>>
    nadv,         \* number of Ok(n) results with n > 0 so far
    again         \* the current poll began after poll had returned Ready(Ok)

vars == <<target_os, self, data, received, room, closed, nonblocking, pc, ret,
          last, ncalls, intr, polls, advanced, unwritable, never_writable, wstart,
          alive, parts, observed, nadv, again>>

\* ------------------------------------------------------------ the crate

\* The file and the socket the caller hands to send_file.
File == "file"
Socket == "socket"

\* send_file(file, socket)
send_file(file, socket) == [file |-> file, socket |-> socket, written |-> 0]

\* SendFile::written(&self)
written == self.written

\* A variant of the call that takes the count out of the struct.
written_call_take(s) == [self |-> [s EXCEPT !.written = 0], value |-> s.written]

\* A call of SendFile::written(&self): the struct it leaves and the value it
\* returns.
written_call(s) == [self |-> s, value |-> s.written]

\* A variant that returns the pair in the opposite order.
into_inner_swapped(s) == <<s.socket, s.file>>

\* SendFile::into_inner(self)
into_inner(s) == <<s.file, s.socket>>

\* io::Result<usize>
Ok(n)  == [ok |-> TRUE,  n |-> n, err |-> "none"]
Err(e) == [ok |-> FALSE, n |-> 0, err |-> e]

\* io::Error::kind() of io::Error::last_os_error()
kind(errno) ==
    CASE errno = "EAGAIN"     -> "WouldBlock"
      [] errno = "EINTR"      -> "Interrupted"
      [] errno = "EPIPE"      -> "BrokenPipe"
      [] errno = "ECONNRESET" -> "ConnectionReset"
      [] OTHER                -> "Other"

\* The offset and length arguments each variant passes to libc::sendfile.
\* A length of 0 asks macOS and FreeBSD to send up to the end of the file.
sendfile_offset(s) == s.written

\* A variant that passes no ceiling on Linux either.
sendfile_length_all(os) == 0

sendfile_length(os) == IF os = "linux" THEN count ELSE 0

\* A variant that accounts length only when the call succeeded.
raw_send_file_macos_ok_only(s, k) ==
    IF k.res # "OK" THEN [self |-> s, res |-> Err(k.res)]
    ELSE [self |-> [s EXCEPT !.written = @ + k.n], res |-> Ok(k.n)]

\* A variant that assigns length to written instead of adding it.
raw_send_file_macos_assign(s, k) ==
    LET s2 == [s EXCEPT !.written = k.n]
    IN  IF k.res # "OK" THEN [self |-> s2, res |-> Err(k.res)]
        ELSE [self |-> s2, res |-> Ok(k.n)]

\* raw_send_file, macOS: length is a value-result parameter, added to
\* written whatever the call returned.
raw_send_file_macos(s, k) ==
    LET length == k.n
        s2 == [s EXCEPT !.written = @ + length]
    IN  IF k.res # "OK" THEN [self |-> s2, res |-> Err(k.res)]
        ELSE [self |-> s2, res |-> Ok(length)]

\* A variant that stores the count of this call instead of the offset.
raw_send_file_linux_count(s, k) ==
    IF k.res # "OK" THEN [self |-> s, res |-> Err(k.res)]
    ELSE [self |-> [s EXCEPT !.written = k.n], res |-> Ok(k.n)]

\* raw_send_file, Linux and Android: the kernel advances offset; written is
\* set from it only when the call succeeded.
raw_send_file_linux(s, k) ==
    IF k.res # "OK" THEN [self |-> s, res |-> Err(k.res)]
    ELSE [self |-> [s EXCEPT !.written = k.offset], res |-> Ok(k.n)]

\* A variant that assigns bytes_sent to written instead of adding it.
raw_send_file_freebsd_assign(s, k) ==
    LET s2 == [s EXCEPT !.written = k.n]
    IN  IF k.res # "OK" THEN [self |-> s2, res |-> Err(k.res)]
        ELSE [self |-> s2, res |-> Ok(k.n)]

\* A variant that accounts bytes_sent only when the call succeeded.
raw_send_file_freebsd_ok_only(s, k) ==
    IF k.res # "OK" THEN [self |-> s, res |-> Err(k.res)]
    ELSE [self |-> [s EXCEPT !.written = @ + k.n], res |-> Ok(k.n)]

\* raw_send_file, FreeBSD: bytes_sent is an out parameter, added to written
\* whatever the call returned.
raw_send_file_freebsd(s, k) ==
    LET bytes_sent == k.n
        s2 == [s EXCEPT !.written = @ + bytes_sent]
    IN  IF k.res # "OK" THEN [self |-> s2, res |-> Err(k.res)]
        ELSE [self |-> s2, res |-> Ok(bytes_sent)]

raw_send_file(os, s, k) ==
    CASE os = "macos"   -> raw_send_file_macos(s, k)
      [] os = "linux"   -> raw_send_file_linux(s, k)
      [] os = "freebsd" -> raw_send_file_freebsd(s, k)

\* Poll<io::Result<()>>: the success value is the unit type, modelled as the
\* empty tuple.
NotReturned    == [state |-> "none",    ok |-> FALSE, val |-> <<>>, err |-> "none"]
Poll_Pending   == [state |-> "Pending", ok |-> FALSE, val |-> <<>>, err |-> "none"]
Poll_Ready_Ok  == [state |-> "Ready",   ok |-> TRUE,  val |-> <<>>, err |-> "none"]
Poll_Ready_Err(e) == [state |-> "Ready", ok |-> FALSE, val |-> <<>>, err |-> e]

\* Variants of the match: the Ok(_) arm placed before the Ok(0) arm; no
\* loop after a successful call; no arm for WouldBlock; no arm for
\* Interrupted; every error retried.
poll_match_arm_order(r) ==
    IF r.ok THEN "continue"
    ELSE IF kind(r.err) = "WouldBlock" THEN "pending"
    ELSE IF kind(r.err) = "Interrupted" THEN "retry"
    ELSE "ready_err"

poll_match_no_loop(r) ==
    IF r.ok THEN "ready_ok"
    ELSE IF kind(r.err) = "WouldBlock" THEN "pending"
    ELSE IF kind(r.err) = "Interrupted" THEN "retry"
    ELSE "ready_err"

poll_match_no_would_block(r) ==
    IF r.ok /\ r.n = 0 THEN "ready_ok"
    ELSE IF r.ok THEN "continue"
    ELSE IF kind(r.err) = "Interrupted" THEN "retry"
    ELSE "ready_err"

poll_match_no_interrupted(r) ==
    IF r.ok /\ r.n = 0 THEN "ready_ok"
    ELSE IF r.ok THEN "continue"
    ELSE IF kind(r.err) = "WouldBlock" THEN "pending"
    ELSE "ready_err"

poll_match_retry_all(r) ==
    IF r.ok /\ r.n = 0 THEN "ready_ok"
    ELSE IF r.ok THEN "continue"
    ELSE IF kind(r.err) = "WouldBlock" THEN "pending"
    ELSE "retry"

\* The match of poll: which arm takes the result r of raw_send_file.
poll_match(r) ==
    IF r.ok /\ r.n = 0 THEN "ready_ok"
    ELSE IF r.ok THEN "continue"
    ELSE IF kind(r.err) = "WouldBlock" THEN "pending"
    ELSE IF kind(r.err) = "Interrupted" THEN "retry"
    ELSE "ready_err"

\* ------------------------------------------------------------ the kernel

K(res, n, off, hup) == [res |-> res, n |-> n, offset |-> off, hup |-> hup]

\* Outcomes of one sendfile call at file offset off, for at most len bytes
\* (len = 0: up to the end of the file).  n is the number of bytes the call
\* moved, offset the value left in Linux's in/out offset, hup the errno the
\* socket fails with from now on when the peer went away during the call.
sendfile(os, off, len) ==
    LET remaining == IF off >= Len(data) THEN 0 ELSE Len(data) - off
        want == IF len = 0 THEN remaining ELSE Min(remaining, len)
        fit  == IF nonblocking THEN Min(want, room) ELSE want
        sig  == intr < MaxIntr
    IN  IF want = 0 THEN {K("OK", 0, off, closed)}            \* end of file
        ELSE IF closed # "open" THEN {K(closed, 0, off, closed)}
        ELSE IF os = "linux" THEN
               (IF fit = 0 THEN {K("EAGAIN", 0, off, closed)}
                ELSE {K("OK", n, off + n, closed) : n \in 1..fit})
               \cup (IF sig THEN {K("EINTR", 0, off, closed)} ELSE {})
        ELSE   (IF fit = want THEN {K("OK", want, off, closed)}
                ELSE {K("EAGAIN", fit, off, closed)})
               \cup (IF sig THEN {K("EINTR", n, off, closed) : n \in 0..Max(fit - 1, 0)}
                     ELSE {})
               \cup {K(e, n, off, e) : e \in FatalErrno, n \in 1..(fit - 1)}

\* The socket is open and its send buffer is full.
NotWritable == nonblocking /\ room = 0 /\ closed = "open"

\* ------------------------------------------------------------ behaviour

Init ==
    /\ target_os \in Platforms
    /\ data \in SeqsUpTo(MaxSize)
    /\ self = send_file(File, Socket)
    /\ received = <<>>
    /\ nonblocking \in BOOLEAN
    /\ room \in (IF nonblocking THEN 0..BufCap ELSE {BufCap})
    /\ closed = "open"
    /\ pc = "idle"
    /\ ret = NotReturned
    /\ last = [off |-> 0, res |-> "none", n |-> 0]
    /\ ncalls = 0
    /\ intr = 0
    /\ polls = 0
    /\ advanced = 0
    /\ unwritable = FALSE
    /\ never_writable = NotWritable
    /\ wstart = 0
    /\ alive = TRUE
    /\ parts = <<>>
    /\ observed = <<>>
    /\ nadv = 0
    /\ again = FALSE

\* The caller invokes poll.
Poll ==
    /\ alive
    /\ pc = "idle"
    /\ again' = (ret.state = "Ready" /\ ret.ok)
    /\ observed' = <<>>
    /\ pc' = "loop"
    /\ ret' = NotReturned
    /\ ncalls' = 0
    /\ intr' = 0
    /\ polls' = Min(polls + 1, MaxPolls)
    /\ unwritable' = NotWritable
    /\ wstart' = self.written
    /\ UNCHANGED <<target_os, self, data, received, room, closed, nonblocking,
                   last, advanced, never_writable, alive, parts, nadv>>

\* One iteration of poll's loop: one raw_send_file call, then the arm of the
\* match that takes its result.
Iterate(arm) ==
    /\ \E k \in sendfile(target_os, sendfile_offset(self), sendfile_length(target_os)) :
         LET off == sendfile_offset(self)
             r   == raw_send_file(target_os, self, k)
             m   == poll_match(r.res)
         IN  /\ m = arm
             /\ received' = received \o SubSeq(data, off + 1, off + k.n)
             /\ room' = IF nonblocking THEN room - k.n ELSE room
             /\ closed' = k.hup
             /\ self' = r.self
             /\ last' = [off |-> off, res |-> k.res, n |-> k.n]
             /\ ncalls' = IF ncalls < MaxCalls THEN ncalls + 1 ELSE ncalls
             /\ intr' = IF k.res = "EINTR" THEN intr + 1 ELSE intr
             /\ advanced' = IF r.res.ok THEN advanced + r.res.n ELSE advanced
             /\ nadv' = IF r.res.ok /\ r.res.n > 0 THEN nadv + 1 ELSE nadv
             /\ unwritable' = (unwritable /\ k.hup = "open")
             /\ never_writable' = (never_writable /\ k.hup = "open")
             /\ pc' = IF m \in {"continue", "retry"} THEN "loop" ELSE "idle"
             /\ ret' = CASE m = "ready_ok"  -> Poll_Ready_Ok
                         [] m = "pending"   -> Poll_Pending
                         [] m = "ready_err" -> Poll_Ready_Err(r.res.err)
                         [] OTHER           -> NotReturned
    /\ UNCHANGED <<target_os, data, nonblocking, polls, wstart, alive, parts,
                   observed, again>>

Complete  == pc = "loop" /\ Iterate("ready_ok")     \* Ok(0) => break Poll::Ready(Ok(()))
Advance   == pc = "loop" /\ Iterate("continue")     \* Ok(_) => continue
Block     == pc = "loop" /\ Iterate("pending")      \* WouldBlock => break Poll::Pending
Retry     == pc = "loop" /\ Iterate("retry")        \* Interrupted => continue
Fail      == pc = "loop" /\ Iterate("ready_err")    \* Err(err) => break Poll::Ready(Err(err))

Step == Complete \/ Advance \/ Block \/ Retry \/ Fail

\* The peer reads k bytes: the send buffer gets room again.
Drain ==
    /\ nonblocking
    /\ closed = "open"
    /\ room < BufCap
    /\ \E k \in 1..(BufCap - room) : room' = room + k
    /\ unwritable' = FALSE
    /\ never_writable' = FALSE
    /\ UNCHANGED <<target_os, self, data, received, closed, nonblocking, pc, ret,
                   last, ncalls, intr, polls, advanced, wstart, alive, parts,
                   observed, nadv, again>>

\* The peer closes or resets the connection.
Close ==
    /\ closed = "open"
    /\ \E e \in FatalErrno : closed' = e
    /\ unwritable' = FALSE
    /\ never_writable' = FALSE
    /\ UNCHANGED <<target_os, self, data, received, room, nonblocking, pc, ret,
                   last, ncalls, intr, polls, advanced, wstart, alive, parts,
                   observed, nadv, again>>

\* The caller reads the count: written(&self) borrows the struct, so no poll
\* is in progress.
WrittenCall ==
    /\ alive
    /\ pc = "idle"
    /\ LET c == written_call(self)
       IN  /\ self' = c.self
           /\ observed' = <<c.value>>
    /\ UNCHANGED <<target_os, data, received, room, closed, nonblocking, pc, ret,
                   last, ncalls, intr, polls, advanced, unwritable, never_writable,
                   wstart, alive, parts, nadv, again>>

\* The caller takes the file and the socket back: into_inner(self) moves the
\* struct, which is gone afterwards.
IntoInner ==
    /\ alive
    /\ pc = "idle"
    /\ alive' = FALSE
    /\ parts' = into_inner(self)
    /\ UNCHANGED <<target_os, self, data, received, room, closed, nonblocking, pc,
                   ret, last, ncalls, intr, polls, advanced, unwritable,
                   never_writable, wstart, observed, nadv, again>>

Next ==
    \/ Poll \/ Complete \/ Advance \/ Block \/ Retry \/ Fail
    \/ WrittenCall \/ IntoInner \/ Drain \/ Close

Spec == Init /\ [][Next]_vars

\* A file of n bytes whose neighbouring bytes differ.
Alternate(n) == [i \in 1..n |-> i % 2]

\* The initial states with one file of each size: whether and when poll
\* returns does not depend on the bytes of the file, which the crate never
\* reads.
LiveInit == Init /\ \E n \in 0..MaxSize : data = Alternate(n)

\* The caller polls again after every return, the kernel finishes every
\* system call, and the peer keeps reading what is in the send buffer.
LiveSpec ==
    LiveInit /\ [][Next]_vars /\ WF_vars(Poll) /\ WF_vars(Step) /\ WF_vars(Drain)

\* ------------------------------------------------------------ properties

ReadyOk  == pc = "idle" /\ ret.state = "Ready" /\ ret.ok
ReadyErr == pc = "idle" /\ ret.state = "Ready" /\ ~ret.ok
Pending  == pc = "idle" /\ ret.state = "Pending"

\* C1: whenever poll has returned Ready with success, written() equals the
\* size of the source and the destination has received exactly the source's
\* bytes, in order.
C1_Completeness ==
    ReadyOk => (written = Len(data) /\ received = data)

\* A non-blocking transfer of a three-byte file with differing bytes that
\* took more than one poll has completed.
C1_Witness ==
    /\ ReadyOk /\ nonblocking /\ polls >= 2
    /\ Len(data) >= 3 /\ data[1] # data[2] /\ received = data

\* C2: if the peer keeps reading, the caller keeps polling instead of
\* taking the file and socket back, and the connection is never closed, some
\* poll returns Ready with success.
C2_Liveness ==
    <>(ReadyOk \/ closed # "open" \/ ~alive)

\* A transfer that returned Pending at least once has completed.
C2_Witness ==
    /\ ReadyOk /\ closed = "open" /\ nonblocking /\ polls >= 2 /\ Len(data) >= 2
    /\ written = Len(data)

\* C3: with a blocking socket and no fatal error, every poll that has
\* returned, the first included, returned Ready with success and written()
\* equal to the size of the source.
C3_Blocking ==
    (~nonblocking /\ pc = "idle" /\ ret.state # "none" /\ closed = "open")
        => (ret.state = "Ready" /\ ret.ok /\ written = Len(data))

\* The first poll on a blocking socket has returned Ready after several
\* system calls, for a file larger than one call moves on Linux.
C3_Witness ==
    /\ ~nonblocking /\ polls = 1 /\ ReadyOk /\ closed = "open"
    /\ target_os = "linux" /\ Len(data) > count /\ ncalls >= 3
    /\ written = Len(data)

\* C4: in every state the destination has received exactly the first
\* `written` bytes of the source, and the last system call started at the
\* offset that `written` had, so that it ended at the present `written`.
C4_PrefixDelivered ==
    /\ written <= Len(data)
    /\ received = Prefix(data, written)
    /\ last.res # "none" => last.off + last.n = written

\* A system call has started at offset 2 after two earlier bytes that
\* differ from each other.
C4_Witness ==
    /\ last.res = "OK" /\ last.off = 2 /\ last.n = 1 /\ written = 3
    /\ data[1] # data[2] /\ received = data

\* C5: written is 0 at construction, no step decreases it, it never exceeds
\* the size of the source, and neither does the sum of the byte counts of
\* all Ok(n) results.
C5_Monotonic ==
    /\ written = 0
    /\ [][/\ self'.written >= self.written
          /\ self'.written <= Len(data')
          /\ advanced' <= Len(data')]_vars

\* The whole of a non-empty source has been sent and counted.
C5_Witness ==
    /\ written = Len(data) /\ Len(data) >= 2 /\ advanced = Len(data) /\ polls >= 2

\* A step of poll's loop: one more raw_send_file call has been made.
Called == pc = "loop" /\ (last' # last \/ ncalls' # ncalls)

\* C6 as stated: written is the same before and after a raw_send_file call
\* that fails with WouldBlock and makes poll return Pending.
C6_Original ==
    [][(Called /\ pc' = "idle" /\ ret'.state = "Pending")
          => self'.written = self.written]_vars

\* C6, amended: a call that fails with WouldBlock advances written by
\* exactly the bytes that call delivered (none on Linux), the destination
\* still holds exactly the first `written` bytes, written does not change
\* between the Pending and the next poll, and every call starts at offset
\* written.
C6_PendingKeepsBytes ==
    [][/\ (Called /\ pc' = "idle" /\ ret'.state = "Pending")
            => /\ self'.written - self.written = Len(received') - Len(received)
               /\ received' = Prefix(data, self'.written)
               /\ target_os = "linux" => self'.written = self.written
       /\ Pending => (self'.written = self.written /\ received' = received)
       /\ Called => last'.off = self.written]_vars

\* poll has returned Pending after a call that failed with EAGAIN and had
\* moved bytes, which were counted.
C6_Witness ==
    /\ Pending /\ last.res = "EAGAIN" /\ last.n > 0
    /\ written = last.off + last.n /\ written > wstart /\ written < Len(data)

\* C7 as stated: a poll during which the socket was never writable returns
\* Pending and leaves written unchanged, and with a socket that was never
\* writable every poll returns Pending and written stays 0.
C7_Original ==
    /\ (pc = "idle" /\ ret.state # "none" /\ unwritable)
          => (ret.state = "Pending" /\ written = wstart)
    /\ never_writable => written = 0
    /\ (never_writable /\ pc = "idle" /\ ret.state # "none") => ret.state = "Pending"

\* C7, amended: as stated, for polls that begin with bytes of the source
\* still unsent; written stays 0 for a socket that was never writable,
\* whatever the size of the source.
C7_NotWritable ==
    /\ (pc = "idle" /\ ret.state # "none" /\ unwritable /\ wstart < Len(data))
          => (ret.state = "Pending" /\ written = wstart)
    /\ (pc = "loop" /\ unwritable) => written = wstart
    /\ never_writable => written = 0
    /\ (never_writable /\ pc = "idle" /\ ret.state # "none" /\ Len(data) > 0)
          => ret.state = "Pending"

\* Several polls of a non-empty source on a socket that was never writable
\* have returned Pending.
C7_Witness ==
    /\ never_writable /\ unwritable /\ Pending /\ polls >= 3 /\ Len(data) > 0
    /\ written = 0

\* C8: a raw_send_file call that fails with an error other than WouldBlock
\* or Interrupted ends the same poll invocation, which returns Ready with
\* that error after no further call; written then is, and stays, the number
\* of bytes delivered before the failure.
C8_FatalPropagation ==
    [][/\ (Called /\ last'.res \in FatalErrno)
            => /\ pc' = "idle"
               /\ ret' = Poll_Ready_Err(last'.res)
               /\ self'.written = Len(received')
               /\ received' = Prefix(data, self'.written)
       /\ ReadyErr
            => /\ ret.err \in FatalErrno
               /\ written = Len(received)
               /\ self'.written = self.written]_vars

\* poll has returned a connection reset after part of the source was
\* delivered.
C8_Witness ==
    /\ ReadyErr /\ ret.err = "ECONNRESET" /\ last.res = "ECONNRESET"
    /\ written > 0 /\ written < Len(data) /\ written = Len(received)

\* C9: poll never returns Ready(Err(e)) with e of kind WouldBlock or
\* Interrupted; after a call that failed with WouldBlock poll has returned
\* Pending, and after a call that was interrupted poll is still in its loop.
C9_TransientHidden ==
    /\ (ret.state = "Ready" /\ ~ret.ok)
          => kind(ret.err) \notin {"WouldBlock", "Interrupted"}
    /\ (pc = "idle" /\ last.res = "EAGAIN") => ret.state = "Pending"
    /\ last.res = "EINTR" => (pc = "loop" /\ ret = NotReturned)

\* A poll invocation that was interrupted by a signal went on and returned
\* Pending.
C9_Witness ==
    /\ Pending /\ intr > 0 /\ last.res = "EAGAIN" /\ ncalls >= 2

\* C10: when poll returns Ready with success, the value it yields is the
\* total number of bytes transferred, written().
C10_ReadyValue ==
    ReadyOk => ret.val = <<written>>

\* C11 as stated: into_inner can be called whenever no poll is running, it
\* returns the file and the socket given to send_file together with the
\* count transferred so far, and the struct is gone afterwards.
C11_Original ==
    /\ (alive /\ pc = "idle") => ENABLED IntoInner
    /\ ~alive => (parts = <<File, Socket, written>> /\ pc = "idle")

\* C11, amended: into_inner can be called whenever no poll is running
\* (before the first poll, after Pending, after Ready), it returns exactly
\* the file and the socket given to send_file and nothing else, and
\* afterwards the struct is gone: it is never polled or read again.
C11_IntoInner ==
    /\ [](alive => parts = <<>>)
    /\ []((alive /\ pc = "idle") => ENABLED IntoInner)
    /\ [](~alive => (parts = <<File, Socket>> /\ pc = "idle"))
    /\ [][~alive => (~alive' /\ pc' = pc /\ ret' = ret /\ self' = self
                       /\ parts' = parts /\ received' = received)]_vars

\* into_inner was called after poll had returned Pending with part of the
\* source sent.
C11_Witness ==
    /\ ~alive /\ parts = <<File, Socket>> /\ ret.state = "Pending"
    /\ written > 0 /\ written < Len(data)

\* The per-call ceiling of the build: only the Linux variant passes one.
HasCeiling == target_os = "linux"

\* C12: for a source larger than the per-call ceiling, every Ok(n) has n at
\* most the ceiling, poll's Ready(Ok) comes with written() equal to the full
\* size, and more than one Ok(n) with n > 0 has come before it.
C12_Chunking ==
    (HasCeiling /\ Len(data) > count)
        => /\ (last.res = "OK" => last.n <= count)
           /\ ReadyOk => (written = Len(data) /\ nadv >= 2)
           /\ nadv <= 1 => written <= count

\* A source of ceiling + 1 bytes was sent in one poll by exactly two calls
\* that moved bytes, the first of them a full ceiling.
C12_Witness ==
    /\ HasCeiling /\ Len(data) = count + 1 /\ ReadyOk /\ polls = 1
    /\ nadv = 2 /\ ncalls = 3 /\ written = count + 1 /\ last.off = count + 1

\* C13: with a 0-byte source the first poll, and every poll, returns Ready
\* with success after exactly one raw_send_file call, and written stays 0.
C13_EmptySource ==
    Len(data) = 0
        => /\ written = 0
           /\ pc = "loop" => ncalls = 0
           /\ (pc = "idle" /\ ret.state # "none") => (ReadyOk /\ ncalls = 1)

\* The first poll of a 0-byte source has returned Ready(Ok) on a socket that
\* is not writable.
C13_Witness ==
    /\ Len(data) = 0 /\ polls = 1 /\ ReadyOk /\ ncalls = 1 /\ written = 0
    /\ NotWritable

\* C14: a call of written() changes nothing but the caller's copy of the
\* value, returns self.written, and returns the same value as the previous
\* call when no poll came in between.
C14_WrittenPure ==
    /\ [](observed # <<>> => observed = <<written>>)
    /\ [][WrittenCall => /\ self' = self
                         /\ observed' = <<self.written>>
                         /\ observed # <<>> => observed' = observed]_vars

\* written() has returned a count greater than 0 while the transfer is
\* Pending.
C14_Witness ==
    /\ observed = <<written>> /\ written > 0 /\ Pending /\ alive

\* C15: poll leaves its loop only right after a call that returned Ok(0),
\* with Ready(Ok), right after a call that failed with WouldBlock, with
\* Pending, or right after a call that failed with a fatal error, with
\* Ready of that error; after Ok(n) with n > 0 and after Interrupted it
\* stays in the loop.
C15_DrainUntilBlocked ==
    [][/\ (pc = "loop" /\ pc' = "idle")
            => /\ Called
               /\ \/ ret' = Poll_Ready_Ok /\ last'.res = "OK" /\ last'.n = 0
                  \/ ret' = Poll_Pending /\ last'.res = "EAGAIN"
                  \/ last'.res \in FatalErrno /\ ret' = Poll_Ready_Err(last'.res)
       /\ (Called /\ ((last'.res = "OK" /\ last'.n > 0) \/ last'.res = "EINTR"))
            => (pc' = "loop" /\ ret' = NotReturned)]_vars

\* One poll invocation is still in its loop after calls that moved bytes
\* and a call that was interrupted.
C15_Witness ==
    /\ pc = "loop" /\ ncalls >= 3 /\ intr >= 1 /\ written > wstart
    /\ ret = NotReturned

\* C16: every poll invocation returns, given that signals stop arriving;
\* while it is in its loop, the calls that were not interrupted (each an
\* Ok(n) with n > 0) number at most the bytes that remained when it began.
C16_Termination ==
    /\ [](pc = "loop" => ncalls - intr <= Len(data) - wstart)
    /\ (pc = "loop") ~> (pc = "idle")

\* A poll invocation has returned after sending the source one byte per
\* call, with an interruption on the way.
C16_Witness ==
    /\ ReadyOk /\ polls = 1 /\ Len(data) >= 2 /\ intr >= 1
    /\ ncalls = Len(data) + intr + 1

\* C17: on macOS and FreeBSD every call adds the byte count the kernel
\* wrote back to written, whatever the call returned, that count is the
\* number of bytes delivered, and written is where the call ended.
C17_ValueResult ==
    [][(Called /\ target_os \in {"macos", "freebsd"})
          => /\ self'.written = self.written + last'.n
             /\ self'.written = last'.off + last'.n
             /\ Len(received') = Len(received) + last'.n]_vars

\* On FreeBSD a call that was interrupted after moving bytes has been
\* accounted.
C17_Witness ==
    /\ target_os = "freebsd" /\ last.res = "EINTR" /\ last.n > 0
    /\ written = last.off + last.n /\ received = Prefix(data, written)

\* C18: on Linux a call that succeeds with n sets written to the previous
\* written plus n, and a call that fails leaves written, and the bytes
\* delivered, unchanged.
C18_Linux ==
    [][(Called /\ target_os = "linux")
          => IF last'.res = "OK"
             THEN /\ self'.written = self.written + last'.n
                  /\ self'.written = last'.off + last'.n
             ELSE /\ self'.written = self.written
                  /\ received' = received]_vars

\* On Linux a call has failed with WouldBlock after earlier calls had moved
\* bytes, which are still counted.
C18_Witness ==
    /\ target_os = "linux" /\ Pending /\ last.res = "EAGAIN"
    /\ written > 0 /\ written = last.off /\ polls = 1

\* C19: a poll that begins after poll has returned Ready with success makes
\* one call, which moves 0 bytes from the end of the file, and returns Ready
\* with success; written stays the size of the source and the destination
\* receives nothing further.
C19_Repoll ==
    again
        => /\ written = Len(data)
           /\ wstart = Len(data)
           /\ received = data
           /\ pc = "loop" => ncalls = 0
           /\ (pc = "idle" /\ ret.state # "none")
                 => /\ ReadyOk
                    /\ ncalls = 1
                    /\ last = [off |-> Len(data), res |-> "OK", n |-> 0]

\* A non-empty source was polled again after Ready(Ok), and the poll has
\* returned.
C19_Witness ==
    /\ again /\ ReadyOk /\ Len(data) >= 2 /\ ncalls = 1 /\ received = data

====
